---- MODULE Spec2Model ----
(***************************************************************************)
(* State-machine model of the PPO engine of src/ppo.py: the RolloutBuffer, *)
(* the live and behaviour ActorCritic models, the Adam optimizer, the      *)
(* checkpoint file, and PPO.select_action / update / save / load.          *)
(*                                                                         *)
(* Numbers.  A float is modelled as an exact rational <<num, den>> in      *)
(* lowest terms with den > 0; <<0, 0>> is NaN.  A log-probability is       *)
(* represented by the probability it is the logarithm of, so that          *)
(* exp(lp1 - lp2) is the quotient of two probabilities.                    *)
(* Tensors.  A tensor is modelled by its batch dimension: a sequence of    *)
(* per-sample values.  The shape of one sample is not modelled.            *)
(***************************************************************************)
EXTENDS Integers, Sequences, FiniteSets, TLC

VARIABLES buffer, policy, policy_old, optimizer, gamma, K_epochs, disk,
          pc, loc, ret, last, pre, saved

vars == <<buffer, policy, policy_old, optimizer, gamma, K_epochs, disk,
          pc, loc, ret, last, pre, saved>>

---------------------------------------------------------------------------
(* Bounds of the model *)

MaxBuf == 2
MaxLen == 3
MaxK == 2
MaxOptSteps == 2
MaxExtra == 1

---------------------------------------------------------------------------
(* Rational arithmetic standing for float arithmetic *)

NaN == <<0, 0>>

Abs(n) == IF n < 0 THEN 0 - n ELSE n

RECURSIVE GCD(_, _)
GCD(a, b) == IF b = 0 THEN a ELSE GCD(b, a % b)

Rat(n, d) ==
    IF d = 0 THEN NaN
    ELSE LET s == IF d < 0 THEN 0 - 1 ELSE 1
             g == GCD(Abs(n), Abs(d))
         IN  <<(s * n) \div g, (s * d) \div g>>

IsNaN(x) == x[2] = 0

FromInt(n) == <<n, 1>>

RAdd(x, y) == IF IsNaN(x) \/ IsNaN(y) THEN NaN
              ELSE Rat(x[1] * y[2] + y[1] * x[2], x[2] * y[2])

RSub(x, y) == IF IsNaN(x) \/ IsNaN(y) THEN NaN
              ELSE Rat(x[1] * y[2] - y[1] * x[2], x[2] * y[2])

RMul(x, y) == IF IsNaN(x) \/ IsNaN(y) THEN NaN
              ELSE Rat(x[1] * y[1], x[2] * y[2])

RDiv(x, y) == IF IsNaN(x) \/ IsNaN(y) THEN NaN
              ELSE Rat(x[1] * y[2], x[2] * y[1])

RLess(x, y) == ~IsNaN(x) /\ ~IsNaN(y) /\ x[1] * y[2] < y[1] * x[2]

One == FromInt(1)
Zero == FromInt(0)

---------------------------------------------------------------------------
(* Sequence helpers standing for the Python list operations *)

RECURSIVE Reversed(_)
Reversed(s) == IF s = <<>> THEN <<>> ELSE Append(Reversed(Tail(s)), Head(s))

Min2(a, b) == IF a < b THEN a ELSE b

Zip(a, b) == [i \in 1..Min2(Len(a), Len(b)) |-> <<a[i], b[i]>>]

Insert0(s, x) == <<x>> \o s

BoundedSeq(S, n) == UNION {[1..k -> S] : k \in 0..n}

---------------------------------------------------------------------------
(* Inputs of the environment and of the constructor *)

States == {0}
Actions == {0, 1}
Rewards == {0, 1, 2}
StepRewards == {1}
DefaultGamma == Rat(9, 10)
Gammas == {DefaultGamma, Rat(1, 2), Zero, One}
eps_clip == Rat(1, 5)

(* Parameter values of one sub-network; "nan" is a parameter tensor holding NaN *)
Weights == {"w0", "w1"}
ParamSets == [actor : Weights, critic : Weights]
NaNParams == [actor |-> "nan", critic |-> "nan"]

---------------------------------------------------------------------------
(* RolloutBuffer *)

EmptyBuffer ==
    [actions |-> <<>>, states |-> <<>>, logprobs |-> <<>>,
     rewards |-> <<>>, is_terminals |-> <<>>]

(* Mutant: is_terminals is left out of the clear *)
ClearKeepsTerminals(b) ==
    [actions |-> SubSeq(b.actions, 1, 0),
     states |-> SubSeq(b.states, 1, 0),
     logprobs |-> SubSeq(b.logprobs, 1, 0),
     rewards |-> SubSeq(b.rewards, 1, 0),
     is_terminals |-> b.is_terminals]

Clear(b) ==
    [actions |-> SubSeq(b.actions, 1, 0),
     states |-> SubSeq(b.states, 1, 0),
     logprobs |-> SubSeq(b.logprobs, 1, 0),
     rewards |-> SubSeq(b.rewards, 1, 0),
     is_terminals |-> SubSeq(b.is_terminals, 1, 0)]

---------------------------------------------------------------------------
(* ActorCritic: the actor's softmax output and the critic's value, as      *)
(* functions of the parameters.  Both are NaN once the parameters are.     *)

ActionProbs(actor, state, action) ==
    CASE actor = "nan" -> NaN
      [] actor = "w0" -> Rat(1, 2)
      [] OTHER -> IF action = state THEN Rat(3, 4) ELSE Rat(1, 4)

Critic(critic, state) ==
    CASE critic = "nan" -> NaN
      [] critic = "w0" -> Zero
      [] OTHER -> FromInt(state + 1)

(* state_dict(): the parameters keyed by name; load_state_dict copies by key *)
StateDictKeys == {"actor.weight", "critic.weight"}

StateDict(m) ==
    [k \in StateDictKeys |-> IF k = "actor.weight" THEN m.actor ELSE m.critic]

LoadStateDict(sd) ==
    [actor |-> sd["actor.weight"], critic |-> sd["critic.weight"]]

(* torch.save / torch.load: the file holds the (key, tensor) pairs *)
TorchSave(sd) == <<<<"actor.weight", sd["actor.weight"]>>,
                   <<"critic.weight", sd["critic.weight"]>>>>

TorchLoad(blob) ==
    [k \in {blob[i][1] : i \in 1..Len(blob)} |->
        blob[CHOOSE i \in 1..Len(blob) : blob[i][1] = k][2]]

---------------------------------------------------------------------------
(* PPO.update, step 1: Monte Carlo estimate of returns *)

RECURSIVE ReturnsLoop(_, _, _, _)

(* Mutant: the accumulator is not reset at a terminal flag *)
ReturnsLoopNoReset(pairs, g, discounted_reward, rewards) ==
    IF pairs = <<>> THEN rewards
    ELSE LET reward == Head(pairs)[1]
             next == RAdd(FromInt(reward), RMul(g, discounted_reward))
         IN  ReturnsLoop(Tail(pairs), g, next, Insert0(rewards, next))

ReturnsLoop(pairs, g, discounted_reward, rewards) ==
    IF pairs = <<>> THEN rewards
    ELSE LET reward == Head(pairs)[1]
             is_terminal == Head(pairs)[2]
             reset == IF is_terminal THEN Zero ELSE discounted_reward
             next == RAdd(FromInt(reward), RMul(g, reset))
         IN  ReturnsLoop(Tail(pairs), g, next, Insert0(rewards, next))

(* Mutant: the lists are walked first to last *)
DiscountedRewardsForward(rews, terms, g) ==
    ReturnsLoop(Zip(rews, terms), g, Zero, <<>>)

DiscountedRewards(rews, terms, g) ==
    ReturnsLoop(Zip(Reversed(rews), Reversed(terms)), g, Zero, <<>>)

(* PPO.update, step 2: normalizing the rewards.  mean() of an empty tensor *)
(* and std() of fewer than two elements are NaN.  The division by the      *)
(* batch-wide positive scalar std + 1e-7 is not represented: std is        *)
(* irrational in general, and no property checked here reads its size.     *)

RECURSIVE RSum(_)
RSum(t) == IF t = <<>> THEN Zero ELSE RAdd(Head(t), RSum(Tail(t)))

Mean(t) == RDiv(RSum(t), FromInt(Len(t)))

StdIsNaN(t) == Len(t) < 2

Normalize(t) ==
    [i \in 1..Len(t) |-> IF StdIsNaN(t) THEN NaN ELSE RSub(t[i], Mean(t))]

(* PPO.update, step 3: torch.stack raises on an empty list *)
StackRaises(b) == Len(b.states) = 0 \/ Len(b.actions) = 0 \/ Len(b.logprobs) = 0

---------------------------------------------------------------------------
(* PPO.update, step 4: one epoch.  Element-wise tensor operations          *)
(* broadcast: two batch lengths are compatible when equal or when one of   *)
(* them is 1, and raise otherwise.                                         *)

Compatible(m, n) == m = n \/ m = 1 \/ n = 1
BLen(m, n) == IF m = 1 THEN n ELSE m
At(t, i) == IF Len(t) = 1 THEN t[1] ELSE t[i]

Clamp(x, lo, hi) ==
    IF IsNaN(x) THEN NaN
    ELSE IF RLess(x, lo) THEN lo ELSE IF RLess(hi, x) THEN hi ELSE x

(* Mutant: evaluate scores action 0 instead of the given action *)
EvalLogprobsIgnoringAction(m, old_states, old_actions) ==
    [i \in 1..BLen(Len(old_states), Len(old_actions)) |->
        ActionProbs(m.actor, At(old_states, i), 0)]

(* ActorCritic.evaluate on model m *)
EvalLogprobs(m, old_states, old_actions) ==
    [i \in 1..BLen(Len(old_states), Len(old_actions)) |->
        ActionProbs(m.actor, At(old_states, i), At(old_actions, i))]

EvalValues(m, old_states) ==
    [i \in 1..Len(old_states) |-> Critic(m.critic, old_states[i])]

Ratios(logprobs, old_logprobs) ==
    [i \in 1..BLen(Len(logprobs), Len(old_logprobs)) |->
        RDiv(At(logprobs, i), At(old_logprobs, i))]

Advantages(rewards, state_values) ==
    [i \in 1..BLen(Len(rewards), Len(state_values)) |->
        RSub(At(rewards, i), At(state_values, i))]

Surr1(ratios, advantages) ==
    [i \in 1..BLen(Len(ratios), Len(advantages)) |->
        RMul(At(ratios, i), At(advantages, i))]

Surr2(ratios, advantages) ==
    [i \in 1..BLen(Len(ratios), Len(advantages)) |->
        RMul(Clamp(At(ratios, i), RSub(One, eps_clip), RAdd(One, eps_clip)),
             At(advantages, i))]

(* The shapes an epoch combines; any incompatible pair raises RuntimeError *)
EpochShapesOk(l) ==
    LET nS == Len(l.old_states)
        nA == Len(l.old_actions)
        nL == Len(l.old_logprobs)
        nR == Len(l.rewards)
    IN  /\ Compatible(nS, nA)
        /\ Compatible(BLen(nS, nA), nL)
        /\ Compatible(nR, nS)
        /\ Compatible(BLen(BLen(nS, nA), nL), BLen(nR, nS))
        /\ Compatible(BLen(BLen(BLen(nS, nA), nL), BLen(nR, nS)), nS)

HasNaN(t) == \E i \in 1..Len(t) : IsNaN(t[i])

(* The loss is NaN when a term of it is *)
LossIsNaN(m, l) ==
    \/ HasNaN(l.rewards)
    \/ HasNaN(EvalLogprobs(m, l.old_states, l.old_actions))
    \/ HasNaN(EvalValues(m, l.old_states))
    \/ HasNaN(l.old_logprobs)

---------------------------------------------------------------------------
(* State of the engine between and inside calls *)

(* The locals of update(); LocIdle when no update is running *)
LocIdle ==
    [rewards |-> <<>>, old_states |-> <<>>, old_actions |-> <<>>,
     old_logprobs |-> <<>>, epoch |-> 0, ratios |-> <<>>, advantages |-> <<>>,
     surr1 |-> <<>>, surr2 |-> <<>>, trace |-> <<>>]

Snapshot ==
    [buffer |-> buffer, policy |-> policy, policy_old |-> policy_old,
     optimizer |-> optimizer]

Outcome(op, status, trace) == [op |-> op, status |-> status, trace |-> trace]

(* PPO.__init__: the behaviour model is a hard copy of the freshly          *)
(* initialised live model; the optimizer starts without state.             *)
Construct(w, g, k) ==
    /\ gamma' = g
    /\ K_epochs' = k
    /\ buffer' = EmptyBuffer
    /\ policy' = w
    /\ optimizer' = [steps |-> 0]
    /\ policy_old' = LoadStateDict(StateDict(w))
    /\ pc' = "idle"
    /\ loc' = LocIdle
    /\ ret' = <<>>
    /\ last' = Outcome("__init__", "returned", <<>>)
    /\ pre' = <<>>

Init ==
    /\ buffer = EmptyBuffer
    /\ policy \in ParamSets
    /\ policy_old = LoadStateDict(StateDict(policy))
    /\ optimizer = [steps |-> 0]
    /\ gamma = DefaultGamma
    /\ K_epochs \in 1..MaxK
    /\ disk = <<>>
    /\ saved = <<>>
    /\ pc = "idle"
    /\ loc = LocIdle
    /\ ret = <<>>
    /\ last = Outcome("__init__", "returned", <<>>)
    /\ pre = <<>>

(* A new engine, with a new buffer, started over the same checkpoint file *)
Restart ==
    /\ pc = "idle"
    /\ \E w \in ParamSets : Construct(w, gamma, K_epochs)
    /\ UNCHANGED <<disk, saved>>

---------------------------------------------------------------------------
(* PPO.select_action: ActorCritic.act on the behaviour model.  The action  *)
(* is a sample of the categorical distribution; sampling from NaN          *)
(* probabilities raises.                                                   *)

Act(m, state, action) ==
    [state |-> state, action |-> action,
     logprob |-> ActionProbs(m.actor, state, action)]

(* Mutant: select_action consults the live model *)
SelectActionLive(state, action) ==
    /\ pc = "idle"
    /\ IF policy.actor = "nan"
       THEN /\ ret' = <<>>
            /\ last' = Outcome("select_action", "raised", <<>>)
       ELSE /\ ret' = <<Act(policy, state, action)>>
            /\ last' = Outcome("select_action", "returned", <<>>)
    /\ pre' = <<Snapshot>>
    /\ UNCHANGED <<buffer, policy, policy_old, optimizer, gamma, K_epochs,
                   disk, saved, pc, loc>>

SelectAction(state, action) ==
    /\ pc = "idle"
    /\ IF policy_old.actor = "nan"
       THEN /\ ret' = <<>>
            /\ last' = Outcome("select_action", "raised", <<>>)
       ELSE /\ ret' = <<Act(policy_old, state, action)>>
            /\ last' = Outcome("select_action", "returned", <<>>)
    /\ pre' = <<Snapshot>>
    /\ UNCHANGED <<buffer, policy, policy_old, optimizer, gamma, K_epochs,
                   disk, saved, pc, loc>>

(* The driver's step: it calls select_action on the observation, steps the *)
(* environment, and appends the whole transition: the state, the action    *)
(* and log-probability select_action returned, the reward and the terminal *)
(* flag.                                                                   *)
AppendTransition(state, action, reward, is_terminal) ==
    /\ pc = "idle"
    /\ policy_old.actor # "nan"
    /\ Len(buffer.states) < MaxBuf
    /\ LET t == Act(policy_old, state, action)
       IN  buffer' = [actions |-> Append(buffer.actions, t.action),
                      states |-> Append(buffer.states, t.state),
                      logprobs |-> Append(buffer.logprobs, t.logprob),
                      rewards |-> Append(buffer.rewards, reward),
                      is_terminals |-> Append(buffer.is_terminals, is_terminal)]
    /\ ret' = <<>>
    /\ last' = Outcome("append", "returned", <<>>)
    /\ pre' = <<>>
    /\ UNCHANGED <<policy, policy_old, optimizer, gamma, K_epochs, disk,
                   saved, pc, loc>>

(* A driver that appends to the public lists one by one can leave them     *)
(* with different lengths: a reward without its transition, with or        *)
(* without the terminal flag.                                              *)
AppendRewardOnly(reward) ==
    /\ pc = "idle"
    /\ Len(buffer.rewards) < Len(buffer.states) + MaxExtra
    /\ buffer' = [buffer EXCEPT !.rewards = Append(@, reward)]
    /\ ret' = <<>>
    /\ last' = Outcome("append", "returned", <<>>)
    /\ pre' = <<>>
    /\ UNCHANGED <<policy, policy_old, optimizer, gamma, K_epochs, disk,
                   saved, pc, loc>>

AppendRewardTerminal(reward, is_terminal) ==
    /\ pc = "idle"
    /\ Len(buffer.rewards) < Len(buffer.states) + MaxExtra
    /\ Len(buffer.is_terminals) < Len(buffer.states) + MaxExtra
    /\ buffer' = [buffer EXCEPT !.rewards = Append(@, reward),
                                !.is_terminals = Append(@, is_terminal)]
    /\ ret' = <<>>
    /\ last' = Outcome("append", "returned", <<>>)
    /\ pre' = <<>>
    /\ UNCHANGED <<policy, policy_old, optimizer, gamma, K_epochs, disk,
                   saved, pc, loc>>

---------------------------------------------------------------------------
(* PPO.update, one action per block of the method.  An exception leaves    *)
(* the method at once: Raise ends the call where it stands.                *)

Raise ==
    /\ pc' = "idle"
    /\ loc' = LocIdle
    /\ last' = Outcome("update", "raised", loc.trace)

UpdateReturns ==
    /\ pc = "idle"
    /\ optimizer.steps + K_epochs <= MaxOptSteps
    /\ loc' = [LocIdle EXCEPT
                 !.rewards = DiscountedRewards(buffer.rewards, buffer.is_terminals, gamma)]
    /\ pc' = "normalize"
    /\ pre' = <<Snapshot>>
    /\ last' = Outcome("update", "running", <<>>)
    /\ ret' = <<>>
    /\ UNCHANGED <<buffer, policy, policy_old, optimizer, gamma, K_epochs,
                   disk, saved>>

UpdateNormalize ==
    /\ pc = "normalize"
    /\ loc' = [loc EXCEPT !.rewards = Normalize(@)]
    /\ pc' = "stack"
    /\ UNCHANGED <<buffer, policy, policy_old, optimizer, gamma, K_epochs,
                   disk, saved, ret, last, pre>>

UpdateStack ==
    /\ pc = "stack"
    /\ IF StackRaises(buffer)
       THEN Raise
       ELSE /\ loc' = [loc EXCEPT !.old_states = buffer.states,
                                  !.old_actions = buffer.actions,
                                  !.old_logprobs = buffer.logprobs]
            /\ pc' = "epoch"
            /\ UNCHANGED last
    /\ UNCHANGED <<buffer, policy, policy_old, optimizer, gamma, K_epochs,
                   disk, saved, ret, pre>>

(* optimizer.step(): Adam moves the live parameters along the gradient of  *)
(* the loss; a NaN loss leaves NaN in them.                                *)
StepResults(m, l) == IF LossIsNaN(m, l) THEN {NaNParams} ELSE ParamSets

(* One iteration of the K_epochs loop.  Categorical(action_probs) rejects  *)
(* NaN probabilities when it validates its arguments (the default of       *)
(* recent torch versions) and accepts them otherwise.                      *)
EpochStep(w) ==
    LET logprobs == EvalLogprobs(policy, loc.old_states, loc.old_actions)
        state_values == EvalValues(policy, loc.old_states)
        ratios == Ratios(logprobs, loc.old_logprobs)
        advantages == Advantages(loc.rewards, state_values)
    IN  /\ EpochShapesOk(loc)
        /\ w \in StepResults(policy, loc)
        /\ policy' = w
        /\ optimizer' = [optimizer EXCEPT !.steps = @ + 1]
        /\ loc' = [loc EXCEPT !.epoch = @ + 1,
                              !.ratios = ratios,
                              !.advantages = advantages,
                              !.surr1 = Surr1(ratios, advantages),
                              !.surr2 = Surr2(ratios, advantages),
                              !.trace = @ \o <<"evaluate", "step">>]
        /\ pc' = IF loc.epoch + 1 = K_epochs THEN "sync" ELSE "epoch"
        /\ UNCHANGED last

EpochOutcome ==
    \/ \E w \in ParamSets \cup {NaNParams} : EpochStep(w)
    \/ /\ policy.actor = "nan" \/ ~EpochShapesOk(loc)
       /\ Raise
       /\ UNCHANGED <<policy, optimizer>>

(* Mutant: the behaviour model is synchronised inside the loop *)
UpdateEpochSyncing ==
    /\ pc = "epoch"
    /\ EpochOutcome
    /\ policy_old' = LoadStateDict(StateDict(policy'))
    /\ UNCHANGED <<buffer, gamma, K_epochs, disk, saved, ret, pre>>

UpdateEpoch ==
    /\ pc = "epoch"
    /\ EpochOutcome
    /\ UNCHANGED <<buffer, policy_old, gamma, K_epochs, disk, saved, ret, pre>>

(* Mutant: only the actor's parameters are copied *)
UpdateSyncActorOnly ==
    /\ pc = "sync"
    /\ policy_old' = [policy_old EXCEPT !.actor = policy.actor]
    /\ loc' = [loc EXCEPT !.trace = Append(@, "sync")]
    /\ pc' = "clear"
    /\ UNCHANGED <<buffer, policy, optimizer, gamma, K_epochs, disk, saved,
                   ret, last, pre>>

(* Copy new weights into old policy *)
UpdateSync ==
    /\ pc = "sync"
    /\ policy_old' = LoadStateDict(StateDict(policy))
    /\ loc' = [loc EXCEPT !.trace = Append(@, "sync")]
    /\ pc' = "clear"
    /\ UNCHANGED <<buffer, policy, optimizer, gamma, K_epochs, disk, saved,
                   ret, last, pre>>

(* clear buffer, and return *)
UpdateClear ==
    /\ pc = "clear"
    /\ buffer' = Clear(buffer)
    /\ pc' = "idle"
    /\ loc' = LocIdle
    /\ last' = Outcome("update", "returned", Append(loc.trace, "clear"))
    /\ UNCHANGED <<policy, policy_old, optimizer, gamma, K_epochs, disk,
                   saved, ret, pre>>

---------------------------------------------------------------------------
(* PPO.save / PPO.load *)

Save ==
    /\ pc = "idle"
    /\ disk' = <<TorchSave(StateDict(policy_old))>>
    /\ saved' = <<policy_old>>
    /\ last' = Outcome("save", "returned", <<>>)
    /\ pre' = <<>>
    /\ ret' = <<>>
    /\ UNCHANGED <<buffer, policy, policy_old, optimizer, gamma, K_epochs,
                   pc, loc>>

(* Mutant: load restores the behaviour model and leaves the live model *)
LoadBehaviourOnly ==
    /\ pc = "idle"
    /\ IF disk = <<>>
       THEN /\ last' = Outcome("load", "raised", <<>>)
            /\ UNCHANGED policy_old
       ELSE /\ policy_old' = LoadStateDict(TorchLoad(disk[1]))
            /\ last' = Outcome("load", "returned", <<>>)
    /\ pre' = <<Snapshot>>
    /\ ret' = <<>>
    /\ UNCHANGED <<buffer, policy, optimizer, gamma, K_epochs, disk, saved, pc, loc>>

(* torch.load of a missing file raises before anything is assigned *)
Load ==
    /\ pc = "idle"
    /\ IF disk = <<>>
       THEN /\ last' = Outcome("load", "raised", <<>>)
            /\ UNCHANGED <<policy, policy_old>>
       ELSE /\ policy_old' = LoadStateDict(TorchLoad(disk[1]))
            /\ policy' = LoadStateDict(TorchLoad(disk[1]))
            /\ last' = Outcome("load", "returned", <<>>)
    /\ pre' = <<Snapshot>>
    /\ ret' = <<>>
    /\ UNCHANGED <<buffer, optimizer, gamma, K_epochs, disk, saved, pc, loc>>

---------------------------------------------------------------------------
(* The engine driven by a collect-then-update loop *)
Next ==
    \/ \E s \in States, a \in Actions : SelectAction(s, a)
    \/ \E s \in States, a \in Actions, r \in StepRewards, d \in BOOLEAN :
          AppendTransition(s, a, r, d)
    \/ \E r \in StepRewards : AppendRewardOnly(r)
    \/ \E r \in StepRewards, d \in BOOLEAN : AppendRewardTerminal(r, d)
    \/ UpdateReturns
    \/ UpdateNormalize
    \/ UpdateStack
    \/ UpdateEpoch
    \/ UpdateSync
    \/ UpdateClear

Spec == Init /\ [][Next]_vars

(* The engine with its checkpoint file, across restarts *)
NextCheckpoint ==
    \/ Restart
    \/ \E s \in States, a \in Actions, r \in StepRewards, d \in BOOLEAN :
          AppendTransition(s, a, r, d)
    \/ UpdateReturns
    \/ UpdateNormalize
    \/ UpdateStack
    \/ UpdateEpoch
    \/ UpdateSync
    \/ UpdateClear
    \/ Save
    \/ Load

SpecCheckpoint == Init /\ [][NextCheckpoint]_vars

(* update()'s return computation alone, over every buffer of rewards and   *)
(* terminal flags a driver can have filled, and every discount factor      *)
BufferOf(rews, terms, m) ==
    [actions |-> [i \in 1..Len(rews) |-> 0],
     states |-> [i \in 1..Len(rews) |-> 0],
     logprobs |-> [i \in 1..Len(rews) |-> ActionProbs(m.actor, 0, 0)],
     rewards |-> rews,
     is_terminals |-> terms]

InitReturns ==
    /\ policy = [actor |-> "w0", critic |-> "w0"]
    /\ policy_old = LoadStateDict(StateDict(policy))
    /\ \E rews \in BoundedSeq(Rewards, MaxLen), terms \in BoundedSeq(BOOLEAN, MaxLen) :
          buffer = BufferOf(rews, terms, policy_old)
    /\ optimizer = [steps |-> 0]
    /\ gamma \in Gammas
    /\ K_epochs = 1
    /\ disk = <<>>
    /\ saved = <<>>
    /\ pc = "idle"
    /\ loc = LocIdle
    /\ ret = <<>>
    /\ last = Outcome("append", "returned", <<>>)
    /\ pre = <<>>

NextReturns == UpdateReturns

SpecReturns == InitReturns /\ [][NextReturns]_vars

---------------------------------------------------------------------------
(* Properties *)

WellFormed(b) ==
    /\ Len(b.rewards) = Len(b.is_terminals)
    /\ Len(b.states) = Len(b.rewards)
    /\ Len(b.actions) = Len(b.rewards)
    /\ Len(b.logprobs) = Len(b.rewards)

UpdateReturned == last.op = "update" /\ last.status = "returned"
UpdateRaised == last.op = "update" /\ last.status = "raised"

(* The reference recurrence of the discounted return, by index: the return *)
(* of the last transition folds into 0, a terminal flag cuts the fold.     *)
RECURSIVE RefReturn(_, _, _, _)
RefReturn(rews, terms, g, i) ==
    LET rest == IF terms[i] \/ i = Len(rews) THEN Zero
                ELSE RefReturn(rews, terms, g, i + 1)
    IN  RAdd(FromInt(rews[i]), RMul(g, rest))

(* C1: on a buffer whose rewards and is_terminals have the same length     *)
(* n >= 1, the returns update() holds before normalizing them are the      *)
(* reference recurrence: n of them, in chronological order; for rewards    *)
(* [1,1,1], terminals [F,F,T] and gamma 0.9 they are [2.71, 1.9, 1.0].     *)
ReturnsMatchReference ==
    (/\ pc = "normalize"
     /\ Len(buffer.rewards) = Len(buffer.is_terminals)
     /\ Len(buffer.rewards) >= 1)
    => /\ Len(loc.rewards) = Len(buffer.rewards)
       /\ \A i \in 1..Len(buffer.rewards) :
             loc.rewards[i] = RefReturn(buffer.rewards, buffer.is_terminals, gamma, i)
       /\ (/\ buffer.rewards = <<1, 1, 1>>
           /\ buffer.is_terminals = <<FALSE, FALSE, TRUE>>
           /\ gamma = Rat(9, 10))
          => loc.rewards = <<Rat(271, 100), Rat(19, 10), Rat(1, 1)>>

ReturnsExampleReached ==
    /\ pc = "normalize"
    /\ buffer.rewards = <<1, 1, 1>>
    /\ buffer.is_terminals = <<FALSE, FALSE, TRUE>>
    /\ gamma = Rat(9, 10)
    /\ loc.rewards = <<Rat(271, 100), Rat(19, 10), Rat(1, 1)>>

(* C2: returns do not leak across a terminal flag at index t.  Against any *)
(* other rewards under the same flags: agreeing up to t gives the same     *)
(* returns up to t, the return at t is the reward at t, and agreeing after *)
(* t gives the same returns after t.                                       *)
ReturnsDoNotLeak ==
    (/\ pc = "normalize"
     /\ Len(buffer.rewards) = Len(buffer.is_terminals))
    => \A t \in 1..Len(buffer.rewards) :
          buffer.is_terminals[t] =>
             /\ loc.rewards[t] = FromInt(buffer.rewards[t])
             /\ \A other \in [1..Len(buffer.rewards) -> Rewards] :
                   LET theirs == DiscountedRewards(other, buffer.is_terminals, gamma)
                   IN  /\ (\A i \in 1..t : other[i] = buffer.rewards[i])
                          => \A i \in 1..t : theirs[i] = loc.rewards[i]
                       /\ (\A i \in (t + 1)..Len(other) : other[i] = buffer.rewards[i])
                          => \A i \in (t + 1)..Len(other) : theirs[i] = loc.rewards[i]

InteriorTerminalReached ==
    /\ pc = "normalize"
    /\ Len(buffer.rewards) = 3
    /\ buffer.is_terminals = <<FALSE, TRUE, FALSE>>
    /\ buffer.rewards = <<1, 1, 2>>
    /\ gamma = Rat(1, 2)
    /\ loc.rewards = <<Rat(3, 2), Rat(1, 1), Rat(2, 1)>>

---------------------------------------------------------------------------
(* C3: right after construction and right after every update() that        *)
(* returns, every parameter of the behaviour model equals the live         *)
(* model's: a whole copy, never a partial one.                             *)
HardCopyInvariant ==
    (last.op = "__init__" \/ UpdateReturned)
    => /\ policy_old.actor = policy.actor
       /\ policy_old.critic = policy.critic

HardCopyAfterDrift ==
    /\ UpdateReturned
    /\ policy.actor # pre[1].policy.actor
    /\ policy.critic # pre[1].policy.critic
    /\ policy_old = policy

(* C4: every update() that returns leaves all five lists of the buffer     *)
(* empty, whatever they held.                                              *)
UpdateEmptiesBuffer ==
    UpdateReturned
    => /\ buffer.actions = <<>>
       /\ buffer.states = <<>>
       /\ buffer.logprobs = <<>>
       /\ buffer.rewards = <<>>
       /\ buffer.is_terminals = <<>>
       /\ buffer = EmptyBuffer

BufferEmptiedAfterFullRollout ==
    /\ UpdateReturned
    /\ Len(pre[1].buffer.states) = MaxBuf
    /\ Len(pre[1].buffer.rewards) > Len(pre[1].buffer.is_terminals)
    /\ buffer = EmptyBuffer

(* C5: update() on an empty buffer, or on one whose five lists differ in   *)
(* length, raises: it never returns, and never returns having put NaN in   *)
(* the parameters.                                                         *)
UpdateRejectsBadBuffer ==
    (/\ last.op = "update"
     /\ last.status # "running"
     /\ ~WellFormed(pre[1].buffer) \/ pre[1].buffer = EmptyBuffer)
    => last.status = "raised"

(* C6: when update() raises, the buffer and the behaviour parameters are   *)
(* as they were at the call; neither is touched before the epochs are over *)
FailedUpdateLeavesState ==
    /\ UpdateRaised
       => /\ buffer = pre[1].buffer
          /\ policy_old = pre[1].policy_old
    /\ pc \in {"normalize", "stack", "epoch"}
       => /\ buffer = pre[1].buffer
          /\ policy_old = pre[1].policy_old
    /\ pc \in {"sync", "clear"}
       => /\ buffer = pre[1].buffer
          /\ loc.epoch = K_epochs

UpdateRaisedAfterAStep ==
    /\ UpdateRaised
    /\ last.trace = <<"evaluate", "step">>
    /\ policy # pre[1].policy
    /\ buffer = pre[1].buffer
    /\ buffer # EmptyBuffer
    /\ policy_old = pre[1].policy_old

(* C7: after load() of a checkpoint save() wrote, the behaviour and live   *)
(* models agree, and both hold the saving engine's behaviour parameters    *)
(* as of the save.                                                         *)
LoadRestoresSaved ==
    (last.op = "load" /\ last.status = "returned")
    => /\ saved # <<>>
       /\ policy_old = saved[1]
       /\ policy = saved[1]
       /\ policy = policy_old

LoadedOverDriftedEngine ==
    /\ last.op = "load"
    /\ last.status = "returned"
    /\ optimizer.steps > 0
    /\ pre[1].policy.actor # saved[1].actor
    /\ pre[1].policy.critic # saved[1].critic
    /\ policy = saved[1]

(* C8: select_action answers from the behaviour model and changes nothing: *)
(* the buffer, both models and the optimizer are as before the call.       *)
SelectActionIsPure ==
    last.op = "select_action"
    => /\ buffer = pre[1].buffer
       /\ policy = pre[1].policy
       /\ policy_old = pre[1].policy_old
       /\ optimizer = pre[1].optimizer
       /\ (last.status = "raised") = (policy_old.actor = "nan")
       /\ last.status = "returned"
          => /\ Len(ret) = 1
             /\ ret[1].logprob =
                   ActionProbs(policy_old.actor, ret[1].state, ret[1].action)

SelectActionWhileLiveDiffers ==
    /\ last.op = "select_action"
    /\ last.status = "returned"
    /\ policy # policy_old
    /\ buffer # EmptyBuffer
    /\ ret[1].logprob # ActionProbs(policy.actor, ret[1].state, ret[1].action)

(* The buffered log-probabilities are those of model m for the buffered   *)
(* states and actions                                                      *)
FromBehaviour(b, m) ==
    /\ Len(b.states) = Len(b.actions)
    /\ Len(b.states) = Len(b.logprobs)
    /\ \A i \in 1..Len(b.states) :
          b.logprobs[i] = ActionProbs(m.actor, b.states[i], b.actions[i])

RECURSIVE EpochEvents(_)
EpochEvents(k) == IF k = 0 THEN <<>> ELSE <<"evaluate", "step">> \o EpochEvents(k - 1)

(* C10: update() on a non-empty buffer of five equally long lists returns  *)
(* after exactly K_epochs optimizer steps, each after one evaluate, then   *)
(* one synchronisation, then the clear.                                    *)
UpdateRunsKEpochs ==
    (/\ last.op = "update"
     /\ last.status # "running"
     /\ WellFormed(pre[1].buffer)
     /\ Len(pre[1].buffer.rewards) >= 1)
    => /\ last.status = "returned"
       /\ last.trace = EpochEvents(K_epochs) \o <<"sync", "clear">>
       /\ optimizer.steps = pre[1].optimizer.steps + K_epochs

====
